---------------------------- MODULE Spec2Model ----------------------------
(***************************************************************************)
(* The bit gadgets (frontend/gadgets/bitops.rs) and the Keccak / address   *)
(* gadget (frontend/gadgets/to_addr.rs) of sapir, as state machines.       *)
(*                                                                         *)
(* Values.  A wire is modelled by the field element it holds.  The field   *)
(* is generic (F: PrimeField); the tests instantiate it with the scalar    *)
(* field of secq256k1, whose modulus exceeds 2^255.  Two exact             *)
(* representations of field elements are used:                             *)
(*   - a bit-level wire (an input of bit_xor, not_a_and_b, from_bits, an   *)
(*     output of to_bits) holds a small integer;                           *)
(*   - a packed wire (the output of from_bits, the input of to_bits, the   *)
(*     output of to_addr) holds a natural number written in binary: the    *)
(*     finite set of the exponents of its 1 bits ({} is 0, {0} is 1,       *)
(*     {0,2} is 5).  Such numbers reach 2^192 and more.                    *)
(* Every value the model computes stays below the modulus, so no           *)
(* reduction takes place and the arithmetic of naturals is the arithmetic  *)
(* of the field.                                                           *)
(*                                                                         *)
(* Arrays and slices are functions on 0..len-1, as in the source.          *)
(***************************************************************************)
EXTENDS Integers, Sequences, FiniteSets, TLC

(***************************************************************************)
(* Bounds of the model.                                                    *)
(***************************************************************************)
MaxWireVal == 2      \* bit-level wires hold 0..MaxWireVal (2: not a bit)
MaxLen == 3          \* from_bits is applied to slices of 1..MaxLen wires
MaxHot == 4          \* ... and to 256-wire slices with one 1 among the last MaxHot
MaxRot == 130        \* rotation amounts 0..MaxRot (beyond 64 and 128)
MaxBase == 1         \* wire arrays given to rotate_left_64: 0..MaxBase
MaxVal == 130        \* field elements 0..MaxVal given to to_bits
MinWidth == 8        \* the narrow bit width given to to_bits
MaxK == 3            \* widths 1..MaxK of the to_bits constraint checked by is_sat
MaxFill == 2         \* to_addr inputs: the test key and 64 x byte f, f < MaxFill

(***************************************************************************)
(* Program constants.                                                      *)
(***************************************************************************)
LANE == 64           \* lane width, [Wire<F>; 64]
UsizeBits == 64      \* width of usize (n: usize, wrapping_sub)
FieldBits == 256     \* the width the tests give to to_bits / from_bits
NumBytes == 32       \* length of into_bigint().to_bytes_be() for the test field
ROUNDS == 24
RATE == 1088         \* STATE_WIDTH - CAPACITY = 1600 - 512

VARIABLES
    pc,      \* bit gadgets: which gadget was applied last ("ready": none yet)
    mode,    \* "WitnessGen" or "ConstraintGen"
    cs,      \* the constraint system: wires allocated, constraints emitted
    arg,     \* the arguments of the gadget applied
    ret,     \* what it returned
    a_pc,    \* to_addr: position in the function
    key,     \* to_addr: the 64 input bytes
    round,   \* to_addr: the round counter i
    state,   \* to_addr: the 25 lanes
    c,       \* to_addr: the column parities of Theta
    d,       \* to_addr: the lanes Theta xors into the columns
    walk,    \* to_addr: the lane indices the last Rho rotated, in order
    addr     \* to_addr: the value of the returned wire

vars == <<pc, mode, cs, arg, ret, a_pc, key, round, state, c, d, walk, addr>>

(***************************************************************************)
(* Arrays.                                                                 *)
(***************************************************************************)
ALen(f) == Cardinality(DOMAIN f)
Slice(f, lo, hi) == [i \in 0..(hi - lo - 1) |-> f[lo + i]]
Concat(f, g) == [i \in 0..(ALen(f) + ALen(g) - 1) |->
                    IF i < ALen(f) THEN f[i] ELSE g[i - ALen(f)]]
Reverse(f) == [i \in 0..(ALen(f) - 1) |-> f[ALen(f) - 1 - i]]
Min(x, y) == IF x < y THEN x ELSE y

(***************************************************************************)
(* Field elements as binary naturals.                                      *)
(***************************************************************************)
RECURSIVE NatAdd(_, _)
NatAdd(S, T) ==
    IF S \cap T = {} THEN S \cup T
    ELSE NatAdd((S \cup T) \ (S \cap T), {e + 1 : e \in S \cap T})

RECURSIVE NatMul(_, _)
NatMul(S, T) ==
    IF S = {} THEN {}
    ELSE LET e == CHOOSE x \in S : TRUE
         IN  NatAdd({t + e : t \in T}, NatMul(S \ {e}, T))

\* F::from(n) for a small integer n >= 0
NatOfInt(n) == {e \in 0..30 : (n \div (2 ^ e)) % 2 = 1}

RECURSIVE IntOfNat(_)
IntOfNat(S) ==
    IF S = {} THEN 0
    ELSE LET e == CHOOSE x \in S : TRUE IN (2 ^ e) + IntOfNat(S \ {e})

(***************************************************************************)
(* The constraint system.  Its code is not among the sources; the          *)
(* operations below follow its description: constrain(A, B, C) appends one *)
(* rank-one constraint and returns a fresh wire w with A*B = w - C;        *)
(* alloc_var allocates a wire; mul_const and sum return a wire that is a   *)
(* linear combination and append nothing; assert_equal appends one         *)
(* constraint.  cs.wires counts the wires allocated by one(), zero(),      *)
(* alloc_var, alloc_const and constrain, the calls whose allocation is     *)
(* described; cs.constraints counts the constraints appended.              *)
(***************************************************************************)
NewCS == [wires |-> 2, constraints |-> 0]      \* one() and zero()

cs_alloc(k, n) == [k EXCEPT !.wires = @ + n]
cs_emit(k, n) == [k EXCEPT !.constraints = @ + n]

\* the value of a linear combination: terms are <<wire value, coefficient>>
RECURSIVE EvalLC(_)
EvalLC(terms) ==
    IF terms = <<>> THEN 0
    ELSE Head(terms)[1] * Head(terms)[2] + EvalLC(Tail(terms))

\* cs.constrain(a, b, c): the fresh wire's value, and the constraint recorded
constrain(k, A, B, C) ==
    LET w == EvalLC(A) * EvalLC(B) + EvalLC(C)
    IN  [cs |-> cs_emit(cs_alloc(k, 1), 1),
         w |-> w,
         con |-> [A |-> A, B |-> B, C |-> C, out |-> w]]

\* is_sat on one recorded constraint: A*B = out - C
con_sat(con) == EvalLC(con.A) * EvalLC(con.B) = con.out - EvalLC(con.C)

\* the field element a bit-level wire holds, as a packed value
val(w) == NatOfInt(w)

\* cs.mul_const(w, k): the wire valued k * w
mul_const(w, k) == NatMul(w, k)

\* cs.sum(terms), every term with sign true.  Field addition is associative:
\* the terms lo..hi are added as two halves, which keeps the nesting shallow.
RECURSIVE sum_range(_, _, _)
sum_range(terms, lo, hi) ==
    IF lo > hi THEN {}
    ELSE IF lo = hi THEN terms[lo]
    ELSE LET mid == (lo + hi) \div 2
         IN  NatAdd(sum_range(terms, lo, mid), sum_range(terms, mid + 1, hi))

sum(terms) == sum_range(terms, 1, Len(terms))

(***************************************************************************)
(* bitops.rs                                                               *)
(***************************************************************************)
\* faulty variant: the coefficient of a is -1 (c = a + b - ab, the OR of two bits)
bit_xor_or(k, a, b) ==
    constrain(k, << <<a, -1>> >>, << <<b, 1>> >>, << <<a, 1>>, <<b, 1>> >>)

\* -2a * b + a + b = c
bit_xor(k, a, b) ==
    constrain(k, << <<a, -2>> >>, << <<b, 1>> >>, << <<a, 1>>, <<b, 1>> >>)

\* (a * -1 + 1 * 1) * (b * 1) = c; the wire one() holds 1
not_a_and_b(k, a, b) ==
    constrain(k, << <<a, -1>>, <<1, 1>> >>, << <<b, 1>> >>, <<>>)

xor_64(k, a, b) ==
    [cs |-> cs_emit(cs_alloc(k, LANE), LANE),
     out |-> [i \in 0..(LANE - 1) |-> bit_xor(k, a[i], b[i]).w]]

not_a_and_b_64(k, a, b) ==
    [cs |-> cs_emit(cs_alloc(k, LANE), LANE),
     out |-> [i \in 0..(LANE - 1) |-> not_a_and_b(k, a[i], b[i]).w]]

\* 2^e mod m, without forming 2^e
RECURSIVE Pow2Mod(_, _)
Pow2Mod(e, m) == IF e = 0 THEN 1 % m ELSE (2 * Pow2Mod(e - 1, m)) % m

UsizeModLane == Pow2Mod(UsizeBits, LANE)

\* faulty variant: i - n computed without wrapping (the index leaves the array)
rot_index_checked(i, n) == i - n

\* (i as usize).wrapping_sub(n) % 64: i - n is taken modulo 2^UsizeBits first
rot_index(i, n) ==
    IF i >= n THEN (i - n) % LANE
    ELSE (UsizeModLane + LANE - ((n - i) % LANE)) % LANE

\* faulty variant: out[i] = a[(i + n) mod 64]
rotate_left_64_right(a, n) ==
    [ok |-> TRUE, out |-> [i \in 0..(LANE - 1) |-> a[(i + n) % LANE]]]

\* ok is FALSE when an index a[..] is out of bounds (the call panics)
rotate_left_64(a, n) ==
    IF \A i \in 0..(LANE - 1) : rot_index(i, n) \in DOMAIN a
    THEN [ok |-> TRUE, out |-> [i \in 0..(LANE - 1) |-> a[rot_index(i, n)]]]
    ELSE [ok |-> FALSE, out |-> <<>>]

\* pow in from_bits when t bits were taken: F::from(1), doubled t times
from_bits_pow(t) == {t}

\* the terms from_bits pushes: term t + 1 is bit t of bits.iter().rev(),
\* times pow
from_bits_terms(bits) ==
    LET len == ALen(bits)
    IN  [t \in 1..len |-> mul_const(val(bits[len - t]), from_bits_pow(t - 1))]

\* faulty variant: the bits are taken first to last ("LSB first", no .rev())
from_bits_lsb(bits) == sum(from_bits_terms(Reverse(bits)))

from_bits(bits) == sum(from_bits_terms(bits))

\* a.into_bigint().to_bytes_be(): byte 0 is the most significant
to_bytes_be(a) ==
    [i \in 0..(NumBytes - 1) |->
        IntOfNat({j \in 0..7 : 8 * (NumBytes - 1 - i) + j \in a})]

\* the witness assignment of to_bits: bits[i * 8 + j] = (a_bytes[i] >> j) & 1
to_bits_assign(a, field_bits) ==
    LET a_bytes == to_bytes_be(a)
    IN  [x \in 0..(field_bits - 1) |->
            IF x \div 8 < NumBytes
            THEN (a_bytes[x \div 8] \div (2 ^ (x % 8))) % 2
            ELSE 0]

\* pow in to_bits when i chunks were added: F::ONE, then 2^(8 * i)
to_bits_pow(i) == IF i = 0 THEN NatOfInt(1) ELSE {8 * i}

\* the terms to_bits adds to sum: term i + 1 is chunk i of
\* bits.chunks(8).rev(), reversed, through from_bits, times pow
to_bits_terms(bits) ==
    LET len == ALen(bits)
        nchunks == (len + 7) \div 8
    IN  [t \in 1..nchunks |->
            LET ch == nchunks - t
                byte == Reverse(Slice(bits, 8 * ch, Min(8 * ch + 8, len)))
            IN  mul_const(from_bits(byte), to_bits_pow(t - 1))]

to_bits_sum(bits) == sum(to_bits_terms(bits))

\* to_bits(a, field_bits) in mode m.  ok is FALSE when bits[i * 8 + j] is out
\* of bounds (the call panics); eq is whether the two sides of the constraint
\* appended by assert_equal(a, sum) are equal under the values the wires hold
\* (in constraint mode the outputs keep the F::ZERO of alloc_var).
to_bits(k, m, a, field_bits) ==
    LET zeros == [x \in 0..(field_bits - 1) |-> 0]
        panics == m = "WitnessGen" /\ 8 * NumBytes > field_bits
        bits == IF m = "WitnessGen" /\ ~panics
                THEN to_bits_assign(a, field_bits) ELSE zeros
    IN  IF panics
        THEN [ok |-> FALSE, cs |-> cs_alloc(k, field_bits), bits |-> <<>>,
              eq |-> FALSE]
        ELSE [ok |-> TRUE, cs |-> cs_emit(cs_alloc(k, field_bits), 1),
              bits |-> bits, eq |-> (a = to_bits_sum(bits))]

(***************************************************************************)
(* The bit gadgets, each applied once to inputs drawn from bounded sets.   *)
(* The two passes of a synthesizer are modelled together: wire values are  *)
(* those of the witness pass, constraints those of the constraint pass.    *)
(* mode decides the branch cs.is_witness_gen() of to_bits.                 *)
(***************************************************************************)
Modes == {"WitnessGen", "ConstraintGen"}

NoAddr ==
    /\ a_pc = "idle" /\ key = <<>> /\ round = 0
    /\ state = <<>> /\ c = <<>> /\ d = <<>> /\ walk = <<>> /\ addr = {}

AddrVars == <<a_pc, key, round, state, c, d, walk, addr>>

InitBits ==
    /\ pc = "ready"
    /\ mode \in Modes
    /\ cs = NewCS
    /\ arg = <<>>
    /\ ret = <<>>
    /\ NoAddr

WireVals == 0..MaxWireVal

ApplyBitXor ==
    /\ pc = "ready"
    /\ \E a \in WireVals, b \in WireVals :
          LET r == bit_xor(cs, a, b)
          IN  /\ arg' = [a |-> a, b |-> b]
              /\ ret' = [w |-> r.w, con |-> r.con]
              /\ cs' = r.cs
    /\ pc' = "bit_xor"
    /\ UNCHANGED <<mode, AddrVars>>

ApplyNotAAndB ==
    /\ pc = "ready"
    /\ \E a \in WireVals, b \in WireVals :
          LET r == not_a_and_b(cs, a, b)
          IN  /\ arg' = [a |-> a, b |-> b]
              /\ ret' = [w |-> r.w, con |-> r.con]
              /\ cs' = r.cs
    /\ pc' = "not_a_and_b"
    /\ UNCHANGED <<mode, AddrVars>>

\* the slices given to from_bits: short ones of any wire values, and
\* FieldBits-long ones with a single 1 (as in test_from_bits)
ShortSlices == UNION {[0..(len - 1) -> WireVals] : len \in 1..MaxLen}
OneHot(q) == [i \in 0..(FieldBits - 1) |-> IF i = q THEN 1 ELSE 0]
HotSlices == {OneHot(q) : q \in (FieldBits - MaxHot)..(FieldBits - 1)}

ApplyFromBits ==
    /\ pc = "ready"
    /\ \E bits \in ShortSlices \cup HotSlices :
          /\ arg' = [bits |-> bits]
          /\ ret' = [w |-> from_bits(bits)]
    /\ pc' = "from_bits"
    /\ UNCHANGED <<mode, cs, AddrVars>>

\* 64 distinct wires, named by their indices
WireArray(base) == [i \in 0..(LANE - 1) |-> base * LANE + i]

ApplyRotate ==
    /\ pc = "ready"
    /\ \E base \in 0..MaxBase, n \in 0..MaxRot :
          LET r == rotate_left_64(WireArray(base), n)
          IN  /\ arg' = [a |-> WireArray(base), n |-> n]
              /\ ret' = [ok |-> r.ok, out |-> r.out]
    /\ pc' = "rotated"
    /\ UNCHANGED <<mode, cs, AddrVars>>

\* rotate_left_64(rotate_left_64(x, n), 64 - n)
ApplyRotateBack ==
    /\ pc = "rotated"
    /\ ret.ok
    /\ arg.n < LANE
    /\ LET r == rotate_left_64(ret.out, LANE - arg.n)
       IN  ret' = [ok |-> r.ok, out |-> r.out, first |-> ret.out]
    /\ pc' = "rotated_back"
    /\ UNCHANGED <<mode, cs, arg, AddrVars>>

Widths(m) ==
    IF m = "WitnessGen" THEN {MinWidth, FieldBits, FieldBits + MinWidth}
    ELSE 1..MaxK

\* to_bits(a, k); in constraint mode the value of a is not read
ApplyToBits ==
    /\ pc = "ready"
    /\ \E k \in Widths(mode),
          a \in IF mode = "WitnessGen" THEN 0..MaxVal ELSE {0} :
          LET r == to_bits(cs, mode, NatOfInt(a), k)
          IN  /\ arg' = [a |-> NatOfInt(a), k |-> k]
              /\ ret' = [ok |-> r.ok, bits |-> r.bits, eq |-> r.eq]
              /\ cs' = r.cs
    /\ pc' = "to_bits"
    /\ UNCHANGED <<mode, AddrVars>>

\* from_bits(&to_bits(a, k)) in the witness pass
ApplyRoundTrip ==
    /\ pc = "to_bits"
    /\ mode = "WitnessGen"
    /\ ret.ok
    /\ ret' = [ok |-> TRUE, bits |-> ret.bits, eq |-> ret.eq,
               w |-> from_bits(ret.bits)]
    /\ pc' = "round_trip"
    /\ UNCHANGED <<mode, cs, arg, AddrVars>>

\* is_sat on the constraint to_bits appended in the constraint pass, against
\* a witness giving a the value v and the k output wires the values w
ApplyIsSat ==
    /\ pc = "to_bits"
    /\ mode = "ConstraintGen"
    /\ \E v \in 0..(2 ^ arg.k), w \in [0..(arg.k - 1) -> WireVals] :
          /\ arg' = [a |-> NatOfInt(v), k |-> arg.k]
          /\ ret' = [ok |-> TRUE, bits |-> w,
                     eq |-> (NatOfInt(v) = to_bits_sum(w))]
    /\ pc' = "is_sat"
    /\ UNCHANGED <<mode, cs, AddrVars>>

NextBits ==
    \/ ApplyBitXor
    \/ ApplyNotAAndB
    \/ ApplyFromBits
    \/ ApplyRotate
    \/ ApplyRotateBack
    \/ ApplyToBits
    \/ ApplyRoundTrip
    \/ ApplyIsSat

Spec == InitBits /\ [][NextBits]_vars

(***************************************************************************)
(* to_addr.rs                                                              *)
(***************************************************************************)
\* Table 2 of FIPS 202, RHO_OFFSETS[y][x] (here rows and columns from 1)
RHO_OFFSETS ==
    << <<0, 1, 190, 28, 91>>,
       <<36, 300, 6, 55, 276>>,
       <<3, 10, 171, 153, 231>>,
       <<105, 45, 15, 21, 136>>,
       <<210, 66, 253, 120, 78>> >>

\* the round constants, each u64 as the set of the positions of its 1 bits
RC == <<
    {0},
    {1, 7, 15},
    {1, 3, 7, 15, 63},
    {15, 31, 63},
    {0, 1, 3, 7, 15},
    {0, 31},
    {0, 7, 15, 31, 63},
    {0, 3, 15, 63},
    {1, 3, 7},
    {3, 7},
    {0, 3, 15, 31},
    {1, 3, 31},
    {0, 1, 3, 7, 15, 31},
    {0, 1, 3, 7, 63},
    {0, 3, 7, 15, 63},
    {0, 1, 15, 63},
    {1, 15, 63},
    {7, 63},
    {1, 3, 15},
    {1, 3, 31, 63},
    {0, 7, 15, 31, 63},
    {7, 15, 63},
    {0, 31},
    {3, 15, 31, 63}
>>

ZeroLane == [i \in 0..(LANE - 1) |-> 0]

\* c >> i & 1 == 1 selects one(), else zero()
rc_lane(r) == [i \in 0..(LANE - 1) |-> IF i \in RC[r + 1] THEN 1 ELSE 0]

\* pad: zero except its first and its last element
pad ==
    [i \in 0..(RATE - 512 - 1) |->
        IF i = 0 \/ i = RATE - 512 - 1 THEN 1 ELSE 0]

padded_input(input) ==
    [x \in 0..1599 |->
        IF x < 512 THEN input[x]
        ELSE IF x < 512 + ALen(pad) THEN pad[x - 512] ELSE 0]

initial_state(input) ==
    [i \in 0..24 |-> Slice(padded_input(input), i * 64, (i + 1) * 64)]

\* Theta: c[x] after the rows y < n were folded in
RECURSIVE theta_c(_, _, _, _)
theta_c(k, st, x, n) ==
    IF n = 0 THEN ZeroLane
    ELSE xor_64(k, theta_c(k, st, x, n - 1), st[x + (n - 1) * 5]).out

theta_d(k, cc, x) ==
    xor_64(k, cc[(x + 4) % 5], rotate_left_64(cc[(x + 1) % 5], 1).out).out

theta_xor(k, st, dd) ==
    [l \in 0..24 |-> xor_64(k, st[l], dd[l % 5]).out]

\* the effect on the constraint system of n calls of xor_64 or
\* not_a_and_b_64: each appends 64 constraints and allocates 64 wires
cs_lanes(k, n) == cs_emit(cs_alloc(k, n * LANE), n * LANE)

\* faulty variant: the walk (x, y) -> (y, (3x + 2y) mod 5)
rho_next_swapped(x, y) == <<y, (3 * x + 2 * y) % 5>>

\* rho_x = rho_y; rho_y = (2 * rho_x_prev + 3 * rho_y) % 5
rho_next(x, y) == <<y, (2 * x + 3 * y) % 5>>

\* <<rho_x, rho_y>> when t iterations of the Rho loop are done
RECURSIVE rho_pos(_)
rho_pos(t) ==
    IF t = 0 THEN <<0, 1>>
    ELSE LET p == rho_pos(t - 1) IN rho_next(p[1], p[2])

rho_index(t) == LET p == rho_pos(t) IN p[1] + 5 * p[2]

\* the state when t iterations of the Rho loop are done
RECURSIVE rho_loop(_, _)
rho_loop(st, t) ==
    IF t = 0 THEN st
    ELSE LET prev == rho_loop(st, t - 1)
             p == rho_pos(t - 1)
             index == p[1] + 5 * p[2]
         IN  [prev EXCEPT ![index] =
                 rotate_left_64(prev[index],
                                RHO_OFFSETS[p[2] + 1][p[1] + 1] % 64).out]

rho(st) == rho_loop(st, 24)

rho_walk == [t \in 1..24 |-> rho_index(t - 1)]

pi(st) ==
    [l \in 0..24 |->
        LET x == l % 5
            y == l \div 5
        IN  st[((x + 3 * y) % 5) + x * 5]]

chi(k, st) ==
    [l \in 0..24 |->
        LET x == l % 5
            y == l \div 5
        IN  xor_64(k, st[l],
                not_a_and_b_64(k, st[((x + 1) % 5) + y * 5],
                                  st[((x + 2) % 5) + y * 5]).out).out]

iota(k, st, i) == [st EXCEPT ![0] = xor_64(k, st[0], rc_lane(i)).out]

\* cs.alloc_const(v): a wire constrained to the constant v
alloc_const(k, v) == [cs |-> cs_emit(cs_alloc(k, 1), 1), w |-> v]

address_bits(st) ==
    Concat(Concat(Slice(st[1], 32, 64), st[2]), st[3])

\* the tail of to_addr: the wire returned
extract(k, st) ==
    LET bits == address_bits(st)
        k0 == alloc_const(k, {128})
        k1 == alloc_const(k0.cs, {64})
        state_0 == NatMul(from_bits(Slice(bits, 0, 64)), k0.w)
        state_1 == NatMul(from_bits(Slice(bits, 64, 128)), k1.w)
        state_2_tmp == Concat([i \in 0..31 |-> 0], Slice(bits, 128, 160))
        state_2 == from_bits(state_2_tmp)
    IN  [cs |-> k1.cs, out |-> NatAdd(NatAdd(state_0, state_1), state_2)]

(***************************************************************************)
(* The inputs of to_addr and the digests keccak256 gives for them          *)
(* (test_to_addr: the key of the test, and keys of 64 equal bytes).        *)
(***************************************************************************)
Array(seq) == [i \in 0..(Len(seq) - 1) |-> seq[i + 1]]

TestKey == Array(<<
        118, 91, 1, 45, 99, 64, 253, 59, 175, 48, 104, 227, 225, 24, 166,
        138, 85, 155, 131, 42, 242, 217, 221, 208, 85, 133, 254, 220, 249,
        249, 194, 169, 90, 101, 247, 23, 8, 40, 29, 158, 21, 23, 226, 140,
        54, 67, 250, 147, 45, 118, 117, 162, 51, 216, 204, 78, 220, 52, 64,
        193, 6, 132, 205, 149
>>)

FillKey(f) == [i \in 0..63 |-> f]

Keys == {TestKey} \cup {FillKey(f) : f \in 0..(MaxFill - 1)}

TestDigest == Array(<<
        70, 81, 52, 43, 154, 255, 74, 168, 165, 46, 58, 183, 64, 14, 166,
        82, 40, 103, 69, 110, 152, 130, 53, 103, 91, 156, 181, 177, 207,
        91, 121, 200
>>)

FillDigests == <<
    Array(<<
        173, 50, 40, 182, 118, 247, 211, 205, 66, 132, 165, 68, 63, 23,
        241, 150, 43, 54, 228, 145, 179, 10, 64, 178, 64, 88, 73, 229, 151,
        186, 95, 181
    >>),
    Array(<<
        64, 22, 23, 188, 79, 118, 147, 129, 248, 107, 228, 13, 240, 32,
        122, 10, 62, 49, 174, 8, 57, 73, 122, 90, 198, 212, 37, 45, 252,
        53, 87, 127
    >>),
    Array(<<
        213, 209, 107, 76, 74, 65, 67, 233, 75, 62, 152, 88, 68, 14, 70,
        47, 39, 19, 166, 185, 168, 62, 109, 168, 112, 165, 46, 254, 132,
        170, 58, 255
    >>),
    Array(<<
        93, 95, 200, 60, 20, 133, 80, 100, 15, 178, 95, 191, 22, 73, 114,
        217, 165, 235, 135, 13, 106, 141, 164, 16, 51, 165, 241, 111, 63,
        161, 83, 92
    >>)
>>

\* keccak256(&pub_key_bytes)
keccak256(k) == IF k = TestKey THEN TestDigest ELSE FillDigests[k[0] + 1]

\* the bits of the bytes, little-endian within each byte
key_bits(k) == [x \in 0..511 |-> (k[x \div 8] \div (2 ^ (x % 8))) % 2]

\* BigUint::from_bytes_be(bytes)
from_bytes_be(bytes) ==
    UNION {{8 * (ALen(bytes) - 1 - i) + j : 
               j \in {j \in 0..7 : (bytes[i] \div (2 ^ j)) % 2 = 1}} :
           i \in DOMAIN bytes}

\* the address the test exposes: the last 20 bytes of the digest
expected_addr(k) == from_bytes_be(Slice(keccak256(k), 12, 32))

NoBits == pc = "idle" /\ arg = <<>> /\ ret = <<>>

BitsVars == <<pc, arg, ret>>

\* to_addr_circuit: 512 private inputs are allocated, then to_addr is called
InitAddr ==
    /\ NoBits
    /\ mode = "WitnessGen"
    /\ cs = cs_alloc(NewCS, 512)
    /\ a_pc = "start"
    /\ key \in Keys
    /\ round = 0
    /\ state = <<>>
    /\ c = <<>>
    /\ d = <<>>
    /\ walk = <<>>
    /\ addr = {}

Absorb ==
    /\ a_pc = "start"
    /\ state' = initial_state(key_bits(key))
    /\ a_pc' = "theta"
    /\ UNCHANGED <<BitsVars, mode, cs, key, round, c, d, walk, addr>>

ThetaC ==
    /\ a_pc = "theta"
    /\ c' = [x \in 0..4 |-> theta_c(cs, state, x, 5)]
    /\ cs' = cs_lanes(cs, 25)
    /\ a_pc' = "theta_d"
    /\ UNCHANGED <<BitsVars, mode, key, round, state, d, walk, addr>>

ThetaD ==
    /\ a_pc = "theta_d"
    /\ d' = [x \in 0..4 |-> theta_d(cs, c, x)]
    /\ cs' = cs_lanes(cs, 5)
    /\ a_pc' = "theta_xor"
    /\ UNCHANGED <<BitsVars, mode, key, round, state, c, walk, addr>>

ThetaXor ==
    /\ a_pc = "theta_xor"
    /\ state' = theta_xor(cs, state, d)
    /\ cs' = cs_lanes(cs, 25)
    /\ a_pc' = "rho"
    /\ UNCHANGED <<BitsVars, mode, key, round, c, d, walk, addr>>

Rho ==
    /\ a_pc = "rho"
    /\ state' = rho(state)
    /\ walk' = rho_walk
    /\ a_pc' = "pi"
    /\ UNCHANGED <<BitsVars, mode, cs, key, round, c, d, addr>>

Pi ==
    /\ a_pc = "pi"
    /\ state' = pi(state)
    /\ a_pc' = "chi"
    /\ UNCHANGED <<BitsVars, mode, cs, key, round, c, d, walk, addr>>

Chi ==
    /\ a_pc = "chi"
    /\ state' = chi(cs, state)
    /\ cs' = cs_lanes(cs, 25 + 25)
    /\ a_pc' = "iota"
    /\ UNCHANGED <<BitsVars, mode, key, round, c, d, walk, addr>>

Iota ==
    /\ a_pc = "iota"
    /\ state' = iota(cs, state, round)
    /\ cs' = cs_lanes(cs, 1)
    /\ round' = round + 1
    /\ a_pc' = IF round + 1 < ROUNDS THEN "theta" ELSE "extract"
    /\ UNCHANGED <<BitsVars, mode, key, c, d, walk, addr>>

Extract ==
    /\ a_pc = "extract"
    /\ LET r == extract(cs, state)
       IN  addr' = r.out /\ cs' = r.cs
    /\ a_pc' = "done"
    /\ UNCHANGED <<BitsVars, mode, key, round, state, c, d, walk>>

NextAddr ==
    \/ Absorb
    \/ ThetaC
    \/ ThetaD
    \/ ThetaXor
    \/ Rho
    \/ Pi
    \/ Chi
    \/ Iota
    \/ Extract

SpecAddr == InitAddr /\ [][NextAddr]_vars

(***************************************************************************)
(* Properties.                                                             *)
(***************************************************************************)
Bit == {0, 1}

\* the natural 2^k * S
ShiftNat(S, k) == {e + k : e \in S}

\* sum over i of bits[i] * 2^(len - 1 - i), as a binary natural
WeightedMsbFirst(bits) ==
    sum([t \in 1..ALen(bits) |->
            ShiftNat(NatOfInt(bits[t - 1]), ALen(bits) - t)])

\* the same sum as an integer, for the first n elements of a short slice
RECURSIVE IntMsbFirst(_, _)
IntMsbFirst(bits, n) ==
    IF n = 0 THEN 0
    ELSE IntMsbFirst(bits, n - 1) + bits[n - 1] * (2 ^ (ALen(bits) - n))

\* C1: for every input of 64 bytes, the wire to_addr returns holds the
\* big-endian integer of bytes 12..32 of keccak256 of the input.
C1_AddrIsKeccak == a_pc = "done" => addr = expected_addr(key)

\* C2: every assignment that satisfies the constraint of to_bits(a, k) gives
\* every output wire the value 0 or 1, and the wires are the k-bit binary
\* encoding of a mod 2^k (so the satisfying assignment is unique).
C2_UniqueBoolean ==
    (pc = "is_sat" /\ ret.eq) =>
        \A i \in 0..(arg.k - 1) :
            /\ ret.bits[i] \in Bit
            /\ ret.bits[i] = ((IntOfNat(arg.a) % (2 ^ arg.k)) \div (2 ^ i)) % 2

\* a has fewer than k significant bits
FewerBits(a, k) == \A e \in a : e < k

\* C3: for every a with fewer than k significant bits, witness generation of
\* to_bits(a, k) completes, and from_bits of the wires returned holds a.
C3_RoundTrip ==
    /\ (pc = "to_bits" /\ mode = "WitnessGen" /\ FewerBits(arg.a, arg.k))
           => ret.ok
    /\ (pc = "round_trip" /\ FewerBits(arg.a, arg.k)) => ret.w = arg.a

\* C4: witness-mode to_bits(a, 256) gives output wire i the i-th bit of the
\* 256-bit most-significant-first decomposition of a, and its own equality
\* constraint holds.
C4_BigEndianBits ==
    (pc = "to_bits" /\ mode = "WitnessGen" /\ arg.k = FieldBits) =>
        /\ ret.ok
        /\ ret.eq
        /\ \A i \in 0..(FieldBits - 1) :
               ret.bits[i] = IF (FieldBits - 1 - i) \in arg.a THEN 1 ELSE 0

C6_BitXor ==
    (pc = "bit_xor" /\ arg.a \in Bit /\ arg.b \in Bit) =>
        /\ ret.w \in Bit
        /\ ret.w = (arg.a + arg.b) % 2
        /\ cs.constraints = NewCS.constraints + 1
        /\ ret.con = [A |-> << <<arg.a, -2>> >>, B |-> << <<arg.b, 1>> >>,
                      C |-> << <<arg.a, 1>>, <<arg.b, 1>> >>, out |-> ret.w]
        /\ (-2 * arg.a) * arg.b = ret.w - arg.a - arg.b
        /\ con_sat(ret.con)

\* C6 is met on a = b = 1, where the xor is 0.
C6_Witness == pc = "bit_xor" /\ arg.a = 1 /\ arg.b = 1 /\ ret.w = 0

\* C7: for n in 0..63, rotate_left_64(x, n)[i] = x[(i - n) mod 64];
\* rotate_left_64(rotate_left_64(x, n), 64 - n) is x (also for n = 0, where
\* the second amount is 64); no wire is allocated, no constraint appended.
C7_Rotate ==
    /\ (pc = "rotated" /\ arg.n < LANE) =>
           /\ ret.ok
           /\ \A i \in 0..(LANE - 1) :
                  ret.out[i] = arg.a[(i + LANE - arg.n) % LANE]
    /\ pc = "rotated_back" =>
           /\ ret.ok
           /\ \A i \in 0..(LANE - 1) :
                  ret.first[i] = arg.a[(i + LANE - arg.n) % LANE]
           /\ ret.out = arg.a
    /\ pc \in {"rotated", "rotated_back"} => cs = NewCS

\* C7 is met for n = 0: the second rotation, by 64, has given x back.
C7_Witness ==
    pc = "rotated_back" /\ arg.n = 0 /\ ret.ok /\ ret.out = arg.a

\* C8 as stated: a rotation amount outside [0, 64) aborts the call, which
\* returns no array.
C8_AbortOutOfRange == (pc = "rotated" /\ arg.n \notin 0..(LANE - 1)) => ~ret.ok

\* C8, amended: a rotation amount n >= 64 does not abort the call; the
\* array returned is the rotation by n mod 64, out[i] = a[(i - n) mod 64].
C8_WrapsOutOfRange ==
    (pc = "rotated" /\ arg.n >= LANE) =>
        /\ ret.ok
        /\ \A i \in 0..(LANE - 1) :
               ret.out[i] = arg.a[(i + LANE - (arg.n % LANE)) % LANE]

\* C8 amended is met for n = 100: the array is rotated by 36.
C8_Witness ==
    /\ pc = "rotated" /\ arg.n = 100 /\ ret.ok
    /\ ret.out[36] = arg.a[0]

\* C9: with A the 160 wires of the high half of lane 1, lane 2 and lane 3,
\* the wire returned holds from_bits(A[0..64]) * 2^96
\* + from_bits(A[64..128]) * 2^32 + from_bits(A[128..160]).
C9_Packing ==
    a_pc = "done" =>
        LET A == address_bits(state)
        IN  addr = NatAdd(NatAdd(ShiftNat(from_bits(Slice(A, 0, 64)), 96),
                                 ShiftNat(from_bits(Slice(A, 64, 128)), 32)),
                          from_bits(Slice(A, 128, 160)))

\* C10: in every round Rho rotates each lane (x, y) other than (0, 0) once,
\* by RHO_OFFSETS[y][x] mod 64 to the left, and leaves lane (0, 0): the 24
\* steps of the walk visit 24 distinct lane indices, none of them 0.
C10_Rho ==
    [][a_pc = "rho" =>
          /\ Len(walk') = 24
          /\ Cardinality({walk'[t] : t \in 1..24}) = 24
          /\ \A t \in 1..24 : walk'[t] \in 1..24
          /\ state'[0] = state[0]
          /\ \A x \in 0..4, y \in 0..4 :
                 x + 5 * y # 0 =>
                     state'[x + 5 * y] =
                         [i \in 0..(LANE - 1) |->
                             state[x + 5 * y][
                                 (i + LANE - (RHO_OFFSETS[y + 1][x + 1] % 64))
                                     % LANE]]
      ]_vars

\* C10 is met in the last round: Rho has run and rotated lane 5 by 36.
C10_Witness ==
    /\ a_pc = "pi" /\ round = ROUNDS - 1
    /\ walk[1] = 5
    /\ \E i \in 0..(LANE - 1) : state[5][i] = 1

=============================================================================
